---- MODULE Spec2Model ----
(***************************************************************************)
(* A model of two scripts of the repository:                               *)
(*   src/src/misc/data_anonymiser.py            (the anonymiser)           *)
(*   src/src/data_analysis/location_analysis_final.py (location analysis)  *)
(*                                                                         *)
(* Python strings are sequences of one-character strings, so that the      *)
(* regular expressions, str.lower, str.strip and the f-string that builds  *)
(* a token are computed character by character.                            *)
(***************************************************************************)
EXTENDS Integers, Sequences, FiniteSets, TLC

VARIABLES
    email_map, phone_map, url_map, text_map,  \* data_anonymiser.py:30
    s, token, ncalls,       \* argument / return value of anonymise_string, calls made
    obj, force, result,     \* arguments / return value of anonymise
    pc,
    \* location_analysis_final.py, main: the listing, the loop position and
    \* the accumulators of lines 122-132, then lines 162 and 169
    json_files, next_file,
    total_records, records_with_any_location_name, records_with_scotland,
    files_with_any_location_name, files_with_scotland, files_failed,
    population_buckets, scotland_buckets, pop_bin_files, scot_bin_files,
    files_parsed, files_scanned

regvars == <<email_map, phone_map, url_map, text_map>>
strvars == <<s, token, ncalls>>
treevars == <<obj, force, result>>
locvars == <<json_files, next_file,
             total_records, records_with_any_location_name, records_with_scotland,
             files_with_any_location_name, files_with_scotland, files_failed,
             population_buckets, scotland_buckets, pop_bin_files, scot_bin_files,
             files_parsed, files_scanned>>
vars == <<email_map, phone_map, url_map, text_map, s, token, ncalls,
          obj, force, result, pc, locvars>>

(***************************************************************************)
(* Bounds of the model.                                                    *)
(***************************************************************************)
MaxFrags == 4       \* a classified string is made of at most this many fragments
MaxCalls == 4       \* calls of anonymise_string in one run of the registry
MaxDepth == 3       \* nesting depth of a document given to anonymise
MaxListLen == 2     \* length of a list of a document
MaxFiles == 2       \* JSON files in the input folder
MaxRecords == 20    \* records in one file

(***************************************************************************)
(* Characters and strings.                                                 *)
(***************************************************************************)
DigitChars == <<"0", "1", "2", "3", "4", "5", "6", "7", "8", "9">>
UpperChars == <<"A", "B", "C", "D", "E", "F", "G", "H", "I", "J", "K", "L", "M",
                "N", "O", "P", "Q", "R", "S", "T", "U", "V", "W", "X", "Y", "Z">>
LowerChars == <<"a", "b", "c", "d", "e", "f", "g", "h", "i", "j", "k", "l", "m",
                "n", "o", "p", "q", "r", "s", "t", "u", "v", "w", "x", "y", "z">>

\* regex class \d
IsDigit(c) == \E i \in 1..Len(DigitChars) : DigitChars[i] = c
\* regex class \s, also the characters str.strip() removes
IsSpace(c) == c \in {" ", "\t", "\n"}

\* str(n) for n >= 0, as the f-string formats the counter
RECURSIVE ToStr(_)
ToStr(n) == IF n < 10 THEN <<DigitChars[n + 1]>>
            ELSE ToStr(n \div 10) \o <<DigitChars[(n % 10) + 1]>>

\* str.lower()
UpperSet == { UpperChars[i] : i \in 1..Len(UpperChars) }
LowerOf == [c \in UpperSet |->
               LowerChars[CHOOSE i \in 1..Len(UpperChars) : UpperChars[i] = c]]
LowerChar(c) == IF c \in UpperSet THEN LowerOf[c] ELSE c
Lower(str) == [i \in 1..Len(str) |-> LowerChar(str[i])]

\* str.startswith(p)
StartsWith(str, p) == Len(str) >= Len(p) /\ SubSeq(str, 1, Len(p)) = p

(***************************************************************************)
(* EMAIL_REGEX and PHONE_REGEX, applied with re.match: the pattern must    *)
(* match starting at index 0, and may end anywhere.  The operators below   *)
(* give the set of end positions at which the pattern can end.             *)
(***************************************************************************)
PHONE_MIN_MIDDLE == 6   \* the {6,} of PHONE_REGEX

\* [^@]+@[^@]+\.[^@]+ matches str[1..e]: the first [^@]+ runs to the first "@",
\* which must not be the first character; the rest up to e holds no "@" and
\* has a "." with a character before it and a character after it
EmailMatchEnds(str) ==
    LET ats == { m \in 1..Len(str) : str[m] = "@" }
    IN  IF ats = {} THEN {}
        ELSE LET i == CHOOSE m \in ats : \A n \in ats : m <= n
             IN  { e \in (i + 3)..Len(str) :
                     /\ i > 1
                     /\ \A m \in ats : m > i => m > e
                     /\ \E j \in (i + 2)..(e - 1) : str[j] = "." }

InPhoneClass(c) == IsDigit(c) \/ IsSpace(c) \/ c \in {"-", "(", ")"}

\* \+?\d[\d\s\-()]{6,}\d matches str[1..e]
PhoneMatchEnds(str) ==
    LET st == IF Len(str) > 0 /\ str[1] = "+" THEN 2 ELSE 1
    IN  { e \in st..Len(str) :
            /\ (e - st) - 1 >= PHONE_MIN_MIDDLE
            /\ IsDigit(str[st])
            /\ IsDigit(str[e])
            /\ \A m \in (st + 1)..(e - 1) : InPhoneClass(str[m]) }

EMAIL_REGEX_match_full(str) == Len(str) \in EmailMatchEnds(str)
EMAIL_REGEX_match(str) == EmailMatchEnds(str) # {}
PHONE_REGEX_match(str) == PhoneMatchEnds(str) # {}

EMAIL == <<"e", "m", "a", "i", "l">>
PHONE == <<"p", "h", "o", "n", "e">>
URL == <<"u", "r", "l">>
TEXT == <<"t", "e", "x", "t">>
HTTP == <<"h", "t", "t", "p">>

(***************************************************************************)
(* The pseudonym registry: four dictionaries from a string to its token.   *)
(***************************************************************************)
EmptyMap == [x \in {} |-> <<>>]

Registry == [email_map |-> email_map, phone_map |-> phone_map,
             url_map |-> url_map, text_map |-> text_map]

\* faulty variants of anonymise_value: no memoisation test; counter from len(mapping)
anonymise_value_overwrite(value, mapping, prefix) ==
    LET tok == prefix \o ToStr(Cardinality(DOMAIN mapping) + 1)
        m2 == [x \in DOMAIN mapping \cup {value} |->
                  IF x = value THEN tok ELSE mapping[x]]
    IN  [tok |-> tok, mapping |-> m2]
anonymise_value_lastcount(value, mapping, prefix) ==
    LET m2 == IF value \in DOMAIN mapping THEN mapping
              ELSE mapping @@ (value :> prefix \o ToStr(Cardinality(DOMAIN mapping)))
    IN  [tok |-> m2[value], mapping |-> m2]

\* anonymise_value: returns the token, and the mapping as the call leaves it
anonymise_value(value, mapping, prefix) ==
    LET m2 == IF value \in DOMAIN mapping THEN mapping
              ELSE mapping @@
                   (value :> prefix \o ToStr(Cardinality(DOMAIN mapping) + 1))
    IN  [tok |-> m2[value], mapping |-> m2]

\* faulty variant of anonymise_string: the phone test before the email test
anonymise_string_phone_first(str, reg) ==
    IF PHONE_REGEX_match(str)
    THEN LET r == anonymise_value(str, reg.phone_map, PHONE)
         IN  [tok |-> r.tok, reg |-> [reg EXCEPT !.phone_map = r.mapping]]
    ELSE IF EMAIL_REGEX_match(str)
    THEN LET r == anonymise_value(str, reg.email_map, EMAIL)
         IN  [tok |-> r.tok, reg |-> [reg EXCEPT !.email_map = r.mapping]]
    ELSE IF StartsWith(str, HTTP)
    THEN LET r == anonymise_value(str, reg.url_map, URL)
         IN  [tok |-> r.tok, reg |-> [reg EXCEPT !.url_map = r.mapping]]
    ELSE LET r == anonymise_value(str, reg.text_map, TEXT)
         IN  [tok |-> r.tok, reg |-> [reg EXCEPT !.text_map = r.mapping]]

\* anonymise_string: returns the token, and the registry as the call leaves it
anonymise_string(str, reg) ==
    IF EMAIL_REGEX_match(str)
    THEN LET r == anonymise_value(str, reg.email_map, EMAIL)
         IN  [tok |-> r.tok, reg |-> [reg EXCEPT !.email_map = r.mapping]]
    ELSE IF PHONE_REGEX_match(str)
    THEN LET r == anonymise_value(str, reg.phone_map, PHONE)
         IN  [tok |-> r.tok, reg |-> [reg EXCEPT !.phone_map = r.mapping]]
    ELSE IF StartsWith(str, HTTP)
    THEN LET r == anonymise_value(str, reg.url_map, URL)
         IN  [tok |-> r.tok, reg |-> [reg EXCEPT !.url_map = r.mapping]]
    ELSE LET r == anonymise_value(str, reg.text_map, TEXT)
         IN  [tok |-> r.tok, reg |-> [reg EXCEPT !.text_map = r.mapping]]

SetRegistry(reg) ==
    /\ email_map' = reg.email_map
    /\ phone_map' = reg.phone_map
    /\ url_map' = reg.url_map
    /\ text_map' = reg.text_map

(***************************************************************************)
(* JSON values.  t is the kind; a is the text of a scalar (the characters  *)
(* of a string, the literal of a number, boolean or null); a dict holds    *)
(* its keys in insertion order in keys and their values in items; a list   *)
(* holds its elements in items.                                            *)
(***************************************************************************)
Str(x) == [t |-> "str", a |-> x, keys |-> <<>>, items |-> <<>>]
Num(x) == [t |-> "num", a |-> x, keys |-> <<>>, items |-> <<>>]
Bool(x) == [t |-> "bool", a |-> x, keys |-> <<>>, items |-> <<>>]
Null == [t |-> "null", a |-> <<>>, keys |-> <<>>, items |-> <<>>]
List(xs) == [t |-> "list", a |-> <<>>, keys |-> <<>>, items |-> xs]
Dict(ks, vs) == [t |-> "dict", a |-> <<>>, keys |-> ks, items |-> vs]

\* d[k] = v on a dict: a new key goes last, a known key keeps its place
DictSet(d, k, v) ==
    IF \E n \in 1..Len(d.keys) : d.keys[n] = k
    THEN LET n == CHOOSE n \in 1..Len(d.keys) : d.keys[n] = k
         IN  [d EXCEPT !.items[n] = v]
    ELSE Dict(Append(d.keys, k), Append(d.items, v))

CONTACTS == <<"c", "o", "n", "t", "a", "c", "t", "s">>
DATA_FILES == <<"d", "a", "t", "a", "_", "f", "i", "l", "e", "s">>
DATA_RESOURCES == <<"d", "a", "t", "a", "_", "r", "e", "s", "o", "u", "r", "c", "e", "s">>
SCRIPT == <<"s", "c", "r", "i", "p", "t">>
ID == <<"i", "d">>

ANON_BLOCKS ==
    { <<"d", "a", "t", "a", "_", "p", "r", "o", "v", "i", "d", "e", "r", "s">>,
      CONTACTS,
      <<"c", "i", "t", "a", "t", "i", "o", "n", "s">>,
      <<"a", "u", "t", "h", "o", "r", "s">>,
      <<"u", "n", "i", "q", "u", "e", "_", "d", "a", "t", "a", "s", "e", "t", "s">>,
      <<"d", "a", "t", "a", "s", "e", "t", "_", "i", "d", "e", "n", "t", "i", "f", "i", "e", "r", "s">>,
      <<"d", "a", "t", "a", "s", "e", "t", "s">>,
      DATA_FILES,
      DATA_RESOURCES,
      <<"d", "a", "t", "a", "_", "c", "o", "l", "l", "e", "c", "t", "i", "o", "n", "s">>,
      <<"d", "a", "t", "a", "_", "l", "i", "c", "e", "n", "c", "e", "s">>,
      <<"d", "a", "t", "a", "_", "t", "a", "g", "s">> }

PIPELINE_FIELDS == { SCRIPT, <<"e", "n", "d", "p", "o", "i", "n", "t", "s">> }

SKIP_KEYS == { <<"l", "o", "c", "a", "t", "i", "o", "n">>, ID, <<"u", "u", "i", "d">> }

(***************************************************************************)
(* anonymise.  Its parent_key argument is passed down and never read, so   *)
(* it is left out; the registry the calls update is passed and returned.   *)
(***************************************************************************)
\* v[:1]
FirstOnly(v) == List(IF Len(v.items) = 0 THEN <<>> ELSE <<v.items[1]>>)

\* faulty variant of Truncate: the key is not looked at
Truncate_every_list(k, v) == IF v.t = "list" THEN FirstOnly(v) ELSE v

\* the two "limit" statements at the head of the loop body
Truncate(k, v) ==
    LET v1 == IF k = DATA_FILES /\ v.t = "list" THEN FirstOnly(v) ELSE v
    IN  IF k = DATA_RESOURCES /\ v1.t = "list" THEN FirstOnly(v1) ELSE v1

\* faulty variants of Branch: a block key does not force; the last branch forces
Branch_block_not_forced(k, f) ==
    LET lk == Lower(k)
    IN  IF f \/ lk \in PIPELINE_FIELDS THEN "forced"
        ELSE IF lk \in ANON_BLOCKS THEN "plain"
        ELSE IF lk \in SKIP_KEYS THEN "skip"
        ELSE "plain"

Branch_plain_forced(k, f) ==
    LET lk == Lower(k)
    IN  IF f \/ lk \in PIPELINE_FIELDS THEN "forced"
        ELSE IF lk \in ANON_BLOCKS THEN "block"
        ELSE IF lk \in SKIP_KEYS THEN "skip"
        ELSE "block"

\* which arm of the if / elif chain of the loop body is taken for key k
Branch(k, f) ==
    LET lk == Lower(k)
    IN  IF f \/ lk \in PIPELINE_FIELDS THEN "forced"
        ELSE IF lk \in ANON_BLOCKS THEN "block"
        ELSE IF lk \in SKIP_KEYS THEN "skip"
        ELSE "plain"

RECURSIVE anonymise(_, _, _)
RECURSIVE anonymise_dict(_, _, _, _, _)
RECURSIVE anonymise_list(_, _, _, _, _)

\* one iteration of "for k, v in obj.items()": the value stored under k
anonymise_entry(k, v0, f, reg) ==
    LET v == Truncate(k, v0)
        b == Branch(k, f)
    IN  IF b = "forced"
        THEN IF v.t = "str"
             THEN LET r == anonymise_string(v.a, reg)
                  IN  [out |-> Str(r.tok), reg |-> r.reg]
             ELSE anonymise(v, TRUE, reg)
        ELSE IF b = "block" THEN anonymise(v, TRUE, reg)
        ELSE IF b = "skip" THEN [out |-> v, reg |-> reg]
        ELSE anonymise(v, FALSE, reg)

\* the loop over obj.items() from the i-th pair on; new_obj is the dict so far
anonymise_dict(o, i, f, reg, new_obj) ==
    IF i > Len(o.keys) THEN [out |-> new_obj, reg |-> reg]
    ELSE LET r == anonymise_entry(o.keys[i], o.items[i], f, reg)
         IN  anonymise_dict(o, i + 1, f, r.reg, DictSet(new_obj, o.keys[i], r.out))

\* the list comprehension from the i-th element on; acc is the list so far
anonymise_list(o, i, f, reg, acc) ==
    IF i > Len(o.items) THEN [out |-> List(acc), reg |-> reg]
    ELSE LET r == anonymise(o.items[i], f, reg)
         IN  anonymise_list(o, i + 1, f, r.reg, Append(acc, r.out))

anonymise(o, f, reg) ==
    IF o.t = "dict" THEN anonymise_dict(o, 1, f, reg, Dict(<<>>, <<>>))
    ELSE IF o.t = "list" THEN anonymise_list(o, 1, f, reg, <<>>)
    ELSE IF o.t = "str"
         THEN IF f THEN LET r == anonymise_string(o.a, reg)
                        IN  [out |-> Str(r.tok), reg |-> r.reg]
              ELSE [out |-> o, reg |-> reg]
    ELSE [out |-> o, reg |-> reg]

(***************************************************************************)
(* location_analysis_final.py                                              *)
(***************************************************************************)
\* str.strip(chars): leading and trailing characters of the set removed
RECURSIVE LStrip(_, _)
LStrip(str, chars) ==
    IF str # <<>> /\ Head(str) \in chars THEN LStrip(Tail(str), chars) ELSE str
RECURSIVE RStrip(_, _)
RStrip(str, chars) ==
    IF str # <<>> /\ str[Len(str)] \in chars
    THEN RStrip(SubSeq(str, 1, Len(str) - 1), chars) ELSE str
Strip(str, chars) == RStrip(LStrip(str, chars), chars)

Whitespace == {" ", "\t", "\n"}
Punctuation == {".", ",", ";", ":", "!", "?", "'", "\"", "(", ")", "[", "]", "{", "}"}

PLACEHOLDERS == { <<"-">>, <<"n", "/", "a">>, <<"n", "a">>,
                  <<"u", "n", "k", "n", "o", "w", "n">> }

\* the cleaned name as a JSON string, or Null for None
clean_location_name(name) ==
    IF name.t # "str" THEN Null
    ELSE LET stripped == Strip(name.a, Whitespace)
         IN  IF Lower(stripped) \in PLACEHOLDERS \/ stripped = <<>> THEN Null
             ELSE Str(stripped)

SCOTLAND == <<"s", "c", "o", "t", "l", "a", "n", "d">>

is_scotland(name) ==
    IF name.t # "str" THEN FALSE
    ELSE Lower(Strip(Strip(name.a, Whitespace), Punctuation)) = SCOTLAND

\* the path is folder/f for a directory entry f, so basename(path) is f
file_identity(base) ==
    LET dots == { m \in 1..Len(base) : base[m] = "." }
    IN  IF dots # {}
        THEN SubSeq(base, 1, (CHOOSE m \in dots : \A n \in dots : n <= m) - 1)
        ELSE base

\* dict.get(k): the value, or None
DictGet(d, k) ==
    IF \E n \in 1..Len(d.keys) : d.keys[n] = k
    THEN d.items[CHOOSE n \in 1..Len(d.keys) : d.keys[n] = k]
    ELSE Null

RECORDS == <<"r", "e", "c", "o", "r", "d", "s">>
LOCATIONS == <<"l", "o", "c", "a", "t", "i", "o", "n", "s">>
NAME == <<"n", "a", "m", "e">>

\* a file that cannot be opened, decoded or parsed
Unreadable == [t |-> "error", a |-> <<>>, keys |-> <<>>, items |-> <<>>]

\* locs of one record: rec.get("locations"), or [] when that is no list
LocsOf(rec) ==
    LET locs == DictGet(rec, LOCATIONS)
    IN  IF locs.t = "list" THEN locs.items ELSE <<>>

\* the names of the dict elements of locs: l.get("name")
NamesOf(locs) ==
    { DictGet(locs[n], NAME) : n \in { m \in 1..Len(locs) : locs[m].t = "dict" } }

\* "if populated:" of the loop body
RecordPopulated(rec) ==
    \E name \in NamesOf(LocsOf(rec)) : clean_location_name(name) # Null

\* "if any(is_scotland(...))" of the loop body
RecordScotland(rec) ==
    \E name \in NamesOf(LocsOf(rec)) : is_scotland(name)

\* the loop "for rec in records" from the i-th record on; a record that is
\* no dict raises AttributeError at rec.get
RECURSIVE CountRecords(_, _, _)
CountRecords(records, i, info) ==
    IF i > Len(records) THEN [info |-> info, failed |-> FALSE, raised |-> FALSE]
    ELSE IF records[i].t # "dict"
    THEN [info |-> Null, failed |-> FALSE, raised |-> TRUE]
    ELSE LET p == RecordPopulated(records[i])
             sc == RecordScotland(records[i])
         IN  CountRecords(records, i + 1,
                [has_location |-> info.has_location \/ p,
                 has_scotland |-> info.has_scotland \/ sc,
                 total_records |-> info.total_records,
                 records_with_location |->
                     info.records_with_location + (IF p THEN 1 ELSE 0),
                 records_with_scotland |->
                     info.records_with_scotland + (IF sc THEN 1 ELSE 0)])

\* process_file: (file_info, failed), or raised when data.get or rec.get
\* raises AttributeError, which nothing catches
process_file(data) ==
    IF data = Unreadable THEN [info |-> Null, failed |-> TRUE, raised |-> FALSE]
    ELSE IF data.t # "dict" THEN [info |-> Null, failed |-> FALSE, raised |-> TRUE]
    ELSE LET got == DictGet(data, RECORDS)
             records == IF got.t = "list" THEN got.items ELSE <<>>
         IN  CountRecords(records, 1,
                [has_location |-> FALSE, has_scotland |-> FALSE,
                 total_records |-> Len(records),
                 records_with_location |-> 0,
                 records_with_scotland |-> 0])

\* faulty variant of population_level: the test for zero is missing
population_level_no_empty(pct) ==
    IF pct.num * 100 <= 5 * pct.den THEN "trace"
    ELSE IF pct.num * 100 <= 25 * pct.den THEN "low"
    ELSE IF pct.num * 100 <= 50 * pct.den THEN "medium"
    ELSE IF pct.num < pct.den THEN "high"
    ELSE "full"

\* pct is the quotient num / den of two counts, 0 <= num <= den, den > 0.  The
\* float quotient compares with 0.05, 0.25, 0.50 and 1.0 as the exact one does.
population_level(pct) ==
    IF pct.num = 0 THEN "empty"
    ELSE IF pct.num * 100 <= 5 * pct.den THEN "trace"
    ELSE IF pct.num * 100 <= 25 * pct.den THEN "low"
    ELSE IF pct.num * 100 <= 50 * pct.den THEN "medium"
    ELSE IF pct.num < pct.den THEN "high"
    ELSE "full"

\* (n / total) if total > 0 else 0.0
Pct(n, total) == IF total > 0 THEN [num |-> n, den |-> total]
                 ELSE [num |-> 0, den |-> 1]

Bins == <<"empty", "trace", "low", "medium", "high", "full">>
BinSet == { Bins[i] : i \in 1..Len(Bins) }

\* main, lines 122-132
MainLocals ==
    /\ next_file = 1
    /\ total_records = 0
    /\ records_with_any_location_name = 0
    /\ records_with_scotland = 0
    /\ files_with_any_location_name = <<>>
    /\ files_with_scotland = <<>>
    /\ files_failed = <<>>
    /\ population_buckets = [b \in BinSet |-> 0]
    /\ scotland_buckets = [b \in BinSet |-> 0]
    /\ pop_bin_files = [b \in BinSet |-> <<>>]
    /\ scot_bin_files = [b \in BinSet |-> <<>>]
    /\ files_parsed = 0
    /\ files_scanned = 0

MainUnchanged == UNCHANGED <<regvars, strvars, treevars>>

\* the iteration for a file that failed to load
FileFailed(identity) ==
    /\ files_failed' = Append(files_failed, identity)
    /\ next_file' = next_file + 1
    /\ UNCHANGED <<json_files, total_records, records_with_any_location_name,
                   records_with_scotland, files_with_any_location_name,
                   files_with_scotland, population_buckets, scotland_buckets,
                   pop_bin_files, scot_bin_files, files_parsed, files_scanned, pc>>

\* the iteration for a file that parsed
FileParsed(identity, info, pop_bin, scot_bin) ==
    /\ total_records' = total_records + info.total_records
    /\ records_with_any_location_name' =
          records_with_any_location_name + info.records_with_location
    /\ records_with_scotland' = records_with_scotland + info.records_with_scotland
    /\ files_with_any_location_name' =
          IF info.has_location THEN Append(files_with_any_location_name, identity)
          ELSE files_with_any_location_name
    /\ files_with_scotland' =
          IF info.has_scotland THEN Append(files_with_scotland, identity)
          ELSE files_with_scotland
    /\ population_buckets' = [population_buckets EXCEPT ![pop_bin] = @ + 1]
    /\ pop_bin_files' = [pop_bin_files EXCEPT ![pop_bin] = Append(@, identity)]
    /\ scotland_buckets' = [scotland_buckets EXCEPT ![scot_bin] = @ + 1]
    /\ scot_bin_files' = [scot_bin_files EXCEPT ![scot_bin] = Append(@, identity)]
    /\ next_file' = next_file + 1
    /\ UNCHANGED <<json_files, files_failed, files_parsed, files_scanned, pc>>

\* one iteration of "for f in json_files"
LoopBody ==
    /\ pc = "loop" /\ next_file <= Len(json_files)
    /\ \E identity \in {file_identity(json_files[next_file].name)} :
       \E r \in {process_file(json_files[next_file].data)} :
           IF r.raised
           THEN pc' = "crashed" /\ UNCHANGED locvars
           ELSE IF r.failed
           THEN FileFailed(identity)
           ELSE FileParsed(identity, r.info,
                    population_level(Pct(r.info.records_with_location,
                                         r.info.total_records)),
                    population_level(Pct(r.info.records_with_scotland,
                                         r.info.total_records)))
    /\ MainUnchanged

\* after the loop: lines 162 and 169
LoopDone ==
    /\ pc = "loop" /\ next_file > Len(json_files)
    /\ files_parsed' = Len(json_files) - Len(files_failed)
    /\ files_scanned' = Len(json_files)
    /\ pc' = "report"
    /\ UNCHANGED <<json_files, next_file, total_records,
                   records_with_any_location_name, records_with_scotland,
                   files_with_any_location_name, files_with_scotland, files_failed,
                   population_buckets, scotland_buckets, pop_bin_files,
                   scot_bin_files>>
    /\ UNCHANGED <<regvars, strvars, treevars>>

(***************************************************************************)
(* Input folders: at most MaxFiles files, each unreadable, or no dict, or  *)
(* a dict whose records are p records with a named location, sc records    *)
(* naming Scotland and n records with no usable name.                      *)
(***************************************************************************)
Loc(name) == Dict(<<NAME>>, <<name>>)
RecNamed == Dict(<<LOCATIONS>>,
                 <<List(<<Loc(Str(<<"n", "/", "a">>)), Loc(Str(<<" ", "F", "i", "f", "e", " ">>))>>)>>)
RecScot == Dict(<<LOCATIONS>>,
                <<List(<<Loc(Str(<<" ", "S", "c", "o", "t", "l", "a", "n", "d", ".">>))>>)>>)
RecBlank == Dict(<<LOCATIONS>>,
                 <<List(<<Loc(Str(<<" ", "N", "/", "A", " ">>)), Num(<<"7">>),
                          Loc(Num(<<"7">>)), Loc(Str(<<" ">>))>>)>>)

Repeat(x, n) == [i \in 1..n |-> x]

RecordCounts ==
    { c \in {0, 1} \X {0, 1, MaxRecords - 1} \X {0, 1, 3, MaxRecords - 1} :
        c[1] + c[2] + c[3] <= MaxRecords }

FileData ==
    { Dict(<<RECORDS>>,
           <<List(Repeat(RecNamed, c[1]) \o Repeat(RecScot, c[2]) \o Repeat(RecBlank, c[3]))>>) :
        c \in RecordCounts }
    \cup { Unreadable,
           List(<<>>),
           Dict(<<>>, <<>>),
           Dict(<<RECORDS>>, <<Num(<<"7">>)>>),
           Dict(<<RECORDS>>, <<List(<<Dict(<<>>, <<>>), Num(<<"7">>)>>)>> ) }

\* the i-th directory entry: every other one has a second dot and an upper-case suffix
FileName(i) ==
    Repeat("f", i) \o (IF i % 2 = 0 THEN <<".", "v", ".", "J", "S", "O", "N">>
                       ELSE <<".", "j", "s", "o", "n">>)

InitLocation ==
    /\ email_map = EmptyMap /\ phone_map = EmptyMap
    /\ url_map = EmptyMap /\ text_map = EmptyMap
    /\ s = <<>> /\ token = <<>> /\ ncalls = 0
    /\ obj = Null /\ force = FALSE /\ result = Null
    /\ \E n \in 0..MaxFiles : \E datas \in [1..n -> FileData] :
          json_files = [i \in 1..n |-> [name |-> FileName(i), data |-> datas[i]]]
    /\ MainLocals
    /\ pc = "loop"

NextLocation == LoopBody \/ LoopDone
SpecLocation == InitLocation /\ [][NextLocation]_vars

(***************************************************************************)
(* Input strings.                                                          *)
(***************************************************************************)
D7 == <<"1", "2", "3", "4", "5", "6", "7">>
Frags == { <<"a">>, <<"@">>, <<".">>, <<"a", ".", "a">>, HTTP, <<"+">>,
           D7, <<"8">>, <<" ">>, <<"-">> }

\* the fragments fs[1], ..., fs[Len(fs)] joined
RECURSIVE Concat(_)
Concat(fs) == IF fs = <<>> THEN <<>> ELSE Head(fs) \o Concat(Tail(fs))

\* the strings of a registry run: at least two of every category
RegStrings ==
    { <<"a", "@", "a", ".", "a">>, <<"8", "@", "a", ".", "a">>,
      D7 \o <<"8">>, <<"+">> \o D7 \o <<"8">>,
      HTTP, HTTP \o <<"a">>,
      <<>>, <<"a">>, <<" ">> }

(***************************************************************************)
(* Input documents: a leaf wrapped at most MaxDepth times, each time in a  *)
(* dict under one of the keys below or in a list; the outermost dict may   *)
(* have a second key before or after.                                      *)
(***************************************************************************)
NOTES == <<"n", "o", "t", "e", "s">>
Data_Files == <<"D", "a", "t", "a", "_", "F", "i", "l", "e", "s">>
DocKeys == { CONTACTS, ID, SCRIPT, NOTES, DATA_FILES, Data_Files }

StrE == Str(<<"a", "@", "a", ".", "a">>)
StrT == Str(<<"a">>)
Leaves == { StrE, StrT, Num(<<"7">>), Bool(<<"t", "r", "u", "e">>), Null, List(<<>>) }

\* a wrapping: under a key, or as the first of n list elements
Wraps == [kind : {"key"}, key : DocKeys, n : {0}]
           \cup [kind : {"list"}, key : {<<>>}, n : 1..MaxListLen]

Wrap(w, v) ==
    IF w.kind = "key" THEN Dict(<<w.key>>, <<v>>)
    ELSE List(<<v>> \o [i \in 1..(w.n - 1) |-> StrT])

\* ws[1] is the innermost wrapping
RECURSIVE Build(_, _, _)
Build(ws, i, v) == IF i > Len(ws) THEN v ELSE Build(ws, i + 1, Wrap(ws[i], v))

Siblings == { "none", "id_after", "notes_before" }

WithSibling(v, sib) ==
    IF v.t # "dict" \/ sib = "none" THEN v
    ELSE IF sib = "id_after" /\ v.keys[1] # ID
         THEN Dict(<<v.keys[1], ID>>, <<v.items[1], StrT>>)
    ELSE IF sib = "notes_before" /\ v.keys[1] # NOTES
         THEN Dict(<<NOTES, v.keys[1]>>, <<StrT, v.items[1]>>)
    ELSE v

Doc(leaf, ws, sib) == WithSibling(Build(ws, 1, leaf), sib)

(***************************************************************************)
(* Calls of anonymise_string on the module-level registry.                 *)
(***************************************************************************)
InitCommon ==
    /\ email_map = EmptyMap /\ phone_map = EmptyMap
    /\ url_map = EmptyMap /\ text_map = EmptyMap
    /\ s = <<>> /\ token = <<>> /\ ncalls = 0
    /\ obj = Null /\ force = FALSE /\ result = Null
    /\ json_files = <<>>
    /\ MainLocals

CallAnonymiseString(x) ==
    \E r \in {anonymise_string(x, Registry)} :
        /\ s' = x
        /\ token' = r.tok
        /\ SetRegistry(r.reg)
        /\ ncalls' = ncalls + 1
        /\ UNCHANGED <<treevars, pc, locvars>>

\* one call on a fresh registry, for every string
InitClassify == InitCommon /\ pc = "classify"
NextClassify ==
    /\ ncalls = 0
    /\ \E n \in 0..MaxFrags : \E fs \in [1..n -> Frags] :
          CallAnonymiseString(Concat(fs))
SpecClassify == InitClassify /\ [][NextClassify]_vars

\* a run of calls, the registry retained between them
InitRegistry == InitCommon /\ pc = "registry"
NextRegistry == ncalls < MaxCalls /\ \E x \in RegStrings : CallAnonymiseString(x)
SpecRegistry == InitRegistry /\ [][NextRegistry]_vars

(***************************************************************************)
(* One call anonymise(obj, force=force) on a fresh registry.               *)
(***************************************************************************)
Anonymise(d, f) ==
    \E r \in {anonymise(d, f, Registry)} :
        /\ obj' = d
        /\ force' = f   \* the caller's choice, made before the call
        /\ result' = r.out
        /\ SetRegistry(r.reg)
        /\ pc' = "done"
        /\ UNCHANGED <<strvars, locvars>>

Init ==
    /\ email_map = EmptyMap /\ phone_map = EmptyMap
    /\ url_map = EmptyMap /\ text_map = EmptyMap
    /\ s = <<>> /\ token = <<>> /\ ncalls = 0
    /\ obj = Null /\ result = Null
    /\ force \in BOOLEAN
    /\ json_files = <<>>
    /\ MainLocals
    /\ pc = "ready"
Next ==
    /\ pc = "ready"
    /\ \E depth \in 0..MaxDepth : \E ws \in [1..depth -> Wraps] :
         \E leaf \in Leaves : \E sib \in Siblings :
            Anonymise(Doc(leaf, ws, sib), force)
Spec == Init /\ [][Next]_vars

(***************************************************************************)
(* Shapes of whole strings, as the specification words them.               *)
(***************************************************************************)
\* positions of "@" in p
AtPositions(p) == { m \in 1..Len(p) : p[m] = "@" }

\* p is: one or more non-"@" characters, one "@", then a domain without "@"
\* that has a "." with at least one character on each side of it
EmailShape(p) ==
    /\ Cardinality(AtPositions(p)) = 1
    /\ LET at == CHOOSE m \in AtPositions(p) : TRUE
       IN  /\ at > 1
           /\ \E dot \in (at + 2)..(Len(p) - 1) : p[dot] = "."

\* p is: an optional "+", then 8 or more characters from digits, whitespace,
\* "-", "(", ")", the first and the last of them digits
PhoneShape(p) ==
    LET body == IF Len(p) > 0 /\ Head(p) = "+" THEN Tail(p) ELSE p
    IN  /\ Len(body) >= 8
        /\ IsDigit(body[1])
        /\ IsDigit(body[Len(body)])
        /\ \A m \in 1..Len(body) :
               IsDigit(body[m]) \/ IsSpace(body[m]) \/ body[m] \in {"-", "(", ")"}

Prefixes(p) == { SubSeq(p, 1, e) : e \in 0..Len(p) }
EmailPrefix(p) == \E q \in Prefixes(p) : EmailShape(q)
PhonePrefix(p) == \E q \in Prefixes(p) : PhoneShape(q)

\* tok is <prefix><decimal count>
IsToken(tok, prefix) ==
    /\ Len(tok) > Len(prefix)
    /\ SubSeq(tok, 1, Len(prefix)) = prefix
    /\ \A m \in (Len(prefix) + 1)..Len(tok) : IsDigit(tok[m])

Categories == {EMAIL, PHONE, URL, TEXT}
MapOf(c) == IF c = EMAIL THEN email_map ELSE IF c = PHONE THEN phone_map
            ELSE IF c = URL THEN url_map ELSE text_map

\* the categories in which the last call filed its argument
FiledIn == { c \in Categories : s \in DOMAIN MapOf(c) /\ MapOf(c)[s] = token
                                /\ IsToken(token, c) }

(***************************************************************************)
(* C8: anonymise_string gives every string exactly one category, by the    *)
(* priority email, phone, url, text: a string with the email shape is      *)
(* email; otherwise one with the phone shape is phone; otherwise one that  *)
(* starts with "http" is url; otherwise it is text.  A string of 8 or more *)
(* digits is phone, and an empty or whitespace-only string is text and     *)
(* still gets a token.                                                     *)
(***************************************************************************)
C8_Priority ==
    ncalls = 1 =>
        /\ Cardinality(FiledIn) = 1
        /\ \A c \in Categories : c \notin FiledIn => s \notin DOMAIN MapOf(c)
        /\ EmailPrefix(s) => FiledIn = {EMAIL}
        /\ (~EmailPrefix(s) /\ PhonePrefix(s)) => FiledIn = {PHONE}
        /\ (~EmailPrefix(s) /\ ~PhonePrefix(s) /\ StartsWith(s, HTTP))
              => FiledIn = {URL}
        /\ (~EmailPrefix(s) /\ ~PhonePrefix(s) /\ ~StartsWith(s, HTTP))
              => FiledIn = {TEXT}
        /\ (Len(s) >= 8 /\ \A m \in 1..Len(s) : IsDigit(s[m])) => FiledIn = {PHONE}
        /\ (\A m \in 1..Len(s) : IsSpace(s[m])) => token = TEXT \o <<"1">>

\* a string that has the email shape and the phone shape at once was filed as email
C8_Witness ==
    /\ ncalls = 1
    /\ EmailPrefix(s) /\ PhonePrefix(s)
    /\ FiledIn = {EMAIL}

(***************************************************************************)
(* C9 as claimed: a string is filed as email only if the entire string has *)
(* the email shape, and as phone only if the entire string has the phone   *)
(* shape.                                                                  *)
(***************************************************************************)
C9_WholeString ==
    ncalls = 1 =>
        /\ EMAIL \in FiledIn => EmailShape(s)
        /\ PHONE \in FiledIn => PhoneShape(s)

(***************************************************************************)
(* C9 as amended: a string is filed as email exactly when some leading     *)
(* part of it has the email shape, and as phone exactly when it is not     *)
(* email and some leading part of it has the phone shape; what follows     *)
(* that leading part is not looked at.                                     *)
(***************************************************************************)
C9_LeadingPart ==
    ncalls = 1 =>
        /\ EMAIL \in FiledIn <=> EmailPrefix(s)
        /\ PHONE \in FiledIn <=> (~EmailPrefix(s) /\ PhonePrefix(s))

\* a string filed as email although only a proper leading part has the shape
C9_Witness ==
    /\ ncalls = 1
    /\ EMAIL \in FiledIn
    /\ ~EmailShape(s)
    /\ \E q \in Prefixes(s) : q # s /\ EmailShape(q)

(***************************************************************************)
(* C6: within one run, a call of anonymise_string on a string seen before  *)
(* returns the token the string already has and adds no entry to any       *)
(* mapping; an entry of a mapping is never changed or removed.             *)
(***************************************************************************)
Seen == DOMAIN email_map \cup DOMAIN phone_map \cup DOMAIN url_map
        \cup DOMAIN text_map
TokenOf(x) == MapOf(CHOOSE c \in Categories : x \in DOMAIN MapOf(c))[x]

EntriesKept(old, new) ==
    \A x \in DOMAIN old : x \in DOMAIN new /\ new[x] = old[x]

C6_Step ==
    /\ EntriesKept(email_map, email_map')
    /\ EntriesKept(phone_map, phone_map')
    /\ EntriesKept(url_map, url_map')
    /\ EntriesKept(text_map, text_map')
    /\ s' \in Seen => /\ token' = TokenOf(s')
                      /\ UNCHANGED regvars

C6_Memoised == [][C6_Step]_vars

\* some call of the run was a repeat: more calls than entries
C6_Witness ==
    /\ ncalls >= 3
    /\ Cardinality(Seen) < ncalls
    /\ Cardinality(Seen) >= 2

(***************************************************************************)
(* C7: from an empty registry, every mapping is injective and its tokens   *)
(* are exactly <prefix>1 .. <prefix>N for its N strings; a string new to a *)
(* mapping of k-1 strings gets the token with count k.                     *)
(***************************************************************************)
Injective(f) == \A x, y \in DOMAIN f : f[x] = f[y] => x = y
TokensOf(f) == { f[x] : x \in DOMAIN f }

C7_Inv ==
    \A c \in Categories :
        /\ Injective(MapOf(c))
        /\ TokensOf(MapOf(c)) =
              { c \o ToStr(k) : k \in 1..Cardinality(DOMAIN MapOf(c)) }

C7_Step ==
    \A c \in Categories : \A x \in DOMAIN MapOf(c)' \ DOMAIN MapOf(c) :
        MapOf(c)'[x] = c \o ToStr(Cardinality(DOMAIN MapOf(c)) + 1)

C7_Counted == []C7_Inv /\ [][C7_Step]_vars

\* a mapping holds three strings
C7_Witness == \E c \in Categories : Cardinality(DOMAIN MapOf(c)) >= 3

(***************************************************************************)
(* Properties of anonymise.  An input node and the output node at the same *)
(* place are walked together; the elements a truncation dropped have no    *)
(* output node and are not walked.                                         *)
(***************************************************************************)
Min(x, y) == IF x <= y THEN x ELSE y

\* the output string o is the token the registry holds for the input string i
Replaced(i, o) ==
    /\ o.t = "str"
    /\ \E c \in Categories :
          /\ i.a \in DOMAIN MapOf(c)
          /\ o.a = MapOf(c)[i.a]
          /\ IsToken(o.a, c)

RECURSIVE BlockLeavesReplaced(_, _, _)
BlockLeavesReplaced(i, o, inBlock) ==
    IF i.t = "dict"
    THEN /\ o.t = "dict" /\ Len(o.items) = Len(i.items)
         /\ \A n \in 1..Len(i.keys) :
               BlockLeavesReplaced(i.items[n], o.items[n],
                                   inBlock \/ Lower(i.keys[n]) \in ANON_BLOCKS)
    ELSE IF i.t = "list"
    THEN /\ o.t = "list"
         /\ \A m \in 1..Min(Len(i.items), Len(o.items)) :
               BlockLeavesReplaced(i.items[m], o.items[m], inBlock)
    ELSE (i.t = "str" /\ inBlock) => Replaced(i, o)

(***************************************************************************)
(* C1 as claimed: with force=false at the root, every string leaf that has *)
(* an ancestor key in ANON_BLOCKS (lower-cased) is replaced in the output  *)
(* by its token, whatever other keys lie on the path.                      *)
(***************************************************************************)
C1_BlockForced ==
    (pc = "done" /\ ~force) => BlockLeavesReplaced(obj, result, FALSE)

\* copied: an unforced skip key is above; forced: a forcing key came first
RECURSIVE ReachedLeavesReplaced(_, _, _, _, _)
ReachedLeavesReplaced(i, o, inBlock, forced, copied) ==
    IF i.t = "dict"
    THEN /\ o.t = "dict" /\ Len(o.items) = Len(i.items)
         /\ \A n \in 1..Len(i.keys) :
               LET lk == Lower(i.keys[n])
                   forcing == lk \in ANON_BLOCKS \cup PIPELINE_FIELDS
               IN  ReachedLeavesReplaced(
                       i.items[n], o.items[n],
                       inBlock \/ lk \in ANON_BLOCKS,
                       forced \/ (~copied /\ forcing),
                       copied \/ (~forced /\ ~forcing /\ lk \in SKIP_KEYS))
    ELSE IF i.t = "list"
    THEN /\ o.t = "list"
         /\ \A m \in 1..Min(Len(i.items), Len(o.items)) :
               ReachedLeavesReplaced(i.items[m], o.items[m], inBlock, forced, copied)
    ELSE /\ (i.t = "str" /\ inBlock /\ ~copied) => Replaced(i, o)
         /\ copied => o = i

(***************************************************************************)
(* C1 as amended: with force=false at the root, every string leaf that has *)
(* an ancestor key in ANON_BLOCKS and that the output retains is replaced  *)
(* by its token, unless a skip key (location, id, uuid) lies on the path   *)
(* above the first ANON_BLOCKS or PIPELINE_FIELDS key: the value of such a *)
(* skip key is copied unchanged, force-block keys inside it included.      *)
(***************************************************************************)
C1_BlockForcedUnlessSkipped ==
    (pc = "done" /\ ~force) =>
        ReachedLeavesReplaced(obj, result, FALSE, FALSE, FALSE)

\* {"notes": {"Data_Files": {"notes": "a"}}}: the leaf two levels below the block key
C1_Witness ==
    /\ pc = "done" /\ ~force
    /\ obj = Dict(<<NOTES>>, <<Dict(<<Data_Files>>, <<Dict(<<NOTES>>, <<StrT>>)>>)>>)
    /\ result = Dict(<<NOTES>>, <<Dict(<<Data_Files>>,
                        <<Dict(<<NOTES>>, <<Str(TEXT \o <<"1">>)>>)>>)>>)

RECURSIVE SkipKept(_, _)
SkipKept(i, o) ==
    IF i.t = "dict"
    THEN /\ o.t = "dict" /\ Len(o.items) = Len(i.items)
         /\ \A n \in 1..Len(i.keys) :
               IF Lower(i.keys[n]) \in SKIP_KEYS
               THEN o.items[n] = i.items[n]
               ELSE SkipKept(i.items[n], o.items[n])
    ELSE IF i.t = "list"
    THEN /\ o.t = "list"
         /\ \A m \in 1..Min(Len(i.items), Len(o.items)) :
               SkipKept(i.items[m], o.items[m])
    ELSE TRUE

(***************************************************************************)
(* C2: for every key whose lower-cased name is in SKIP_KEYS, the value     *)
(* output under that key is the input value, for force=false and for       *)
(* force=true, also inside a forced block.                                 *)
(***************************************************************************)
C2_SkipUnchanged == pc = "done" => SkipKept(obj, result)

RECURSIVE Framed(_, _, _)
Framed(i, o, inForced) ==
    IF i.t = "dict"
    THEN /\ o.t = "dict" /\ Len(o.items) = Len(i.items)
         /\ \A n \in 1..Len(i.keys) :
               Framed(i.items[n], o.items[n],
                      inForced \/ Lower(i.keys[n]) \in ANON_BLOCKS \cup PIPELINE_FIELDS)
    ELSE IF i.t = "list"
    THEN /\ o.t = "list"
         /\ \A m \in 1..Min(Len(i.items), Len(o.items)) :
               Framed(i.items[m], o.items[m], inForced)
    ELSE /\ ~inForced => o = i
         /\ i.t # "str" => o = i

(***************************************************************************)
(* C3: with force=false at the root, a leaf with no ancestor key in        *)
(* ANON_BLOCKS or PIPELINE_FIELDS is output unchanged, and a number,       *)
(* boolean or null leaf is output unchanged wherever it is: only string    *)
(* leaves of a forced subtree are altered.                                 *)
(***************************************************************************)
C3_Frame == (pc = "done" /\ ~force) => Framed(obj, result, FALSE)

\* {"notes": "a", "script": [7, "a"]}: only the string under script is altered
C3_Witness ==
    /\ pc = "done" /\ ~force
    /\ obj = Dict(<<NOTES, SCRIPT>>, <<StrT, List(<<Num(<<"7">>), StrT>>)>>)
    /\ result = Dict(<<NOTES, SCRIPT>>,
                     <<StrT, List(<<Num(<<"7">>), Str(TEXT \o <<"1">>)>>)>>)

RECURSIVE SameShape(_, _)
SameShape(i, o) ==
    IF i.t = "dict"
    THEN /\ o.t = "dict"
         /\ o.keys = i.keys
         /\ Len(o.items) = Len(i.items)
         /\ \A n \in 1..Len(i.keys) :
               LET vi == i.items[n]
                   vo == o.items[n]
               IN  IF i.keys[n] \in {DATA_FILES, DATA_RESOURCES} /\ vi.t = "list"
                   THEN /\ vo.t = "list"
                        /\ Len(vo.items) <= Len(vi.items)
                        /\ \A m \in 1..Len(vo.items) :
                              SameShape(vi.items[m], vo.items[m])
                   ELSE SameShape(vi, vo)
    ELSE IF i.t = "list"
    THEN /\ o.t = "list"
         /\ Len(o.items) = Len(i.items)
         /\ \A m \in 1..Len(i.items) : SameShape(i.items[m], o.items[m])
    ELSE o.t = i.t

(***************************************************************************)
(* C4: for both values of force, the output has at every dict the input's  *)
(* keys in the input's order and at every list the input's length, except  *)
(* for a list held under data_files or data_resources; a scalar stays a    *)
(* scalar of its kind and no key is replaced.                              *)
(***************************************************************************)
C4_Shape == pc = "done" => SameShape(obj, result)

\* {"notes": "a", "contacts": [{"notes": "a@a.a"}, "a"]}, force=true
C4_Witness ==
    /\ pc = "done" /\ force
    /\ obj = Dict(<<NOTES, CONTACTS>>,
                  <<StrT, List(<<Dict(<<NOTES>>, <<StrE>>), StrT>>)>>)
    /\ result = Dict(<<NOTES, CONTACTS>>,
                     <<Str(TEXT \o <<"1">>),
                       List(<<Dict(<<NOTES>>, <<Str(EMAIL \o <<"1">>)>>),
                              Str(TEXT \o <<"1">>)>>)>>)

\* f: the force the node is walked with
RECURSIVE TruncatedAnyCase(_, _, _)
TruncatedAnyCase(i, o, f) ==
    IF i.t = "dict"
    THEN /\ o.t = "dict" /\ Len(o.items) = Len(i.items)
         /\ \A n \in 1..Len(i.keys) :
               LET lk == Lower(i.keys[n])
                   vi == i.items[n]
                   vo == o.items[n]
                   forcing == lk \in ANON_BLOCKS \cup PIPELINE_FIELDS
               IN  /\ (lk \in {DATA_FILES, DATA_RESOURCES} /\ vi.t = "list")
                         => /\ vo.t = "list"
                            /\ Len(vo.items) = Min(1, Len(vi.items))
                   /\ (f \/ forcing \/ lk \notin SKIP_KEYS)
                         => TruncatedAnyCase(vi, vo, f \/ forcing)
    ELSE IF i.t = "list"
    THEN /\ o.t = "list"
         /\ \A m \in 1..Min(Len(i.items), Len(o.items)) :
               TruncatedAnyCase(i.items[m], o.items[m], f)
    ELSE TRUE

(***************************************************************************)
(* C5: at every dict that anonymise walks, a list held under a key that    *)
(* is data_files or data_resources when lower-cased comes out with its     *)
(* first element only (empty when it was empty), for both values of force. *)
(***************************************************************************)
C5_TruncatedAnyCase == pc = "done" => TruncatedAnyCase(obj, result, force)

(***************************************************************************)
(* C10: at every point of the main loop, every file that parsed is in      *)
(* exactly one population bin and exactly one Scotland bin, every file     *)
(* that failed to load is in files_failed and in no bin, and the six       *)
(* counts of either distribution sum to the number of files parsed so far; *)
(* after the loop they sum to files_parsed, and files_scanned is           *)
(* files_parsed plus the number of failed files.  A file with no records,  *)
(* or with no record that qualifies, is in bin empty; a file in bin full   *)
(* has at least one record and every record of it qualifies.               *)
(***************************************************************************)
InSeq(x, seq) == \E n \in 1..Len(seq) : seq[n] = x
BinsHolding(x, bin_files) == { b \in BinSet : InSeq(x, bin_files[b]) }
SumOf(buckets) == buckets["empty"] + buckets["trace"] + buckets["low"]
                  + buckets["medium"] + buckets["high"] + buckets["full"]

\* the records of a parsed document, read off the document itself
DocRecords(data) ==
    IF data.t = "dict" /\ InSeq(RECORDS, data.keys) /\ DictGet(data, RECORDS).t = "list"
    THEN DictGet(data, RECORDS).items ELSE <<>>

BinnedRight(id, records, bin_files, Qualifies(_)) ==
    /\ Cardinality(BinsHolding(id, bin_files)) = 1
    /\ (\A n \in 1..Len(records) : ~Qualifies(records[n]))
          => InSeq(id, bin_files["empty"])
    /\ InSeq(id, bin_files["full"])
          => /\ Len(records) >= 1
             /\ \A n \in 1..Len(records) : Qualifies(records[n])

C10_Bins ==
    LET done == 1..(next_file - 1)
        failed == { i \in done : json_files[i].data = Unreadable }
        parsed == done \ failed
    IN  /\ SumOf(population_buckets) = Cardinality(parsed)
        /\ SumOf(scotland_buckets) = Cardinality(parsed)
        /\ Len(files_failed) = Cardinality(failed)
        /\ \A b \in BinSet : /\ Len(pop_bin_files[b]) = population_buckets[b]
                             /\ Len(scot_bin_files[b]) = scotland_buckets[b]
        /\ \A i \in parsed :
              LET id == file_identity(json_files[i].name)
                  records == DocRecords(json_files[i].data)
              IN  /\ ~InSeq(id, files_failed)
                  /\ BinnedRight(id, records, pop_bin_files, RecordPopulated)
                  /\ BinnedRight(id, records, scot_bin_files, RecordScotland)
        /\ \A i \in failed :
              LET id == file_identity(json_files[i].name)
              IN  /\ InSeq(id, files_failed)
                  /\ BinsHolding(id, pop_bin_files) = {}
                  /\ BinsHolding(id, scot_bin_files) = {}
        /\ pc = "report" =>
              /\ next_file = Len(json_files) + 1
              /\ files_parsed = SumOf(population_buckets)
              /\ files_parsed = SumOf(scotland_buckets)
              /\ files_scanned = files_parsed + Len(files_failed)

\* after the loop: one file failed, the other is in bins trace and empty
C10_Witness ==
    /\ pc = "report"
    /\ Len(files_failed) = 1
    /\ population_buckets["trace"] = 1
    /\ scotland_buckets["empty"] = 1
    /\ files_scanned = 2 /\ files_parsed = 1

====
